---- MODULE Spec2Model ----
(***************************************************************************)
(* Model of the ai-service prediction pipeline:                            *)
(*   prediction_engine.py   backend selection at import, the facade        *)
(*                          generate_prediction, the simulated backend and *)
(*                          the adapter around the Kronos backend          *)
(*   kronos_integration/predictor.py   the Kronos backend                  *)
(*   fallback_predictor.py  the real-data trend predictor                  *)
(*   market_data.py         the market-data provider calls                 *)
(*   main.py                the HTTP routes and generate_smart_prediction  *)
(* A string is a sequence of one-character strings wherever the code       *)
(* transforms or compares its characters (KRONOS_MODE, formatted dates).   *)
(***************************************************************************)
EXTENDS Integers, Sequences, FiniteSets, TLC

VARIABLES
    env,                \* the KRONOS_MODE environment variable
    world,              \* availability of the Kronos dependency in this process
    moduleState,        \* "unimported" | "ready" | "failed"  (prediction_engine)
    importError,        \* exception type that escaped the module body, or "none"
    PREDICTOR_BACKEND,  \* the module-level backend handle
    effects,            \* how often each construction side effect has run
    pc,                 \* per thread: "idle" | "predicting"
    req,                \* per thread: the request in flight
    last,               \* what the caller of the latest finished call got
    outcomes,           \* kinds of result generate_prediction has given so far
    servedBy            \* ids of the backend instances that ever ran predict

vars == <<env, world, moduleState, importError, PREDICTOR_BACKEND, effects,
          pc, req, last, outcomes, servedBy>>

----------------------------------------------------------------------------
(* Bounds *)

NumThreads == 2
MaxHorizon == 2

Threads == 1..NumThreads
Horizons == (0 - 1)..MaxHorizon

----------------------------------------------------------------------------
(* Amounts.  A price, a width, a factor or a percentage is the exact      *)
(* fraction [n, d], d > 0, in lowest terms; the rounding error of float    *)
(* arithmetic is not modelled.                                             *)

Abs(x) == IF x < 0 THEN 0 - x ELSE x

RECURSIVE Gcd(_, _)
Gcd(a, b) == IF b = 0 THEN a ELSE Gcd(b, a % b)

\* the float n / d
Frac(n, d) ==
    LET g == Gcd(Abs(n), Abs(d))
        s == IF d < 0 THEN 0 - 1 ELSE 1
    IN [n |-> (s * n) \div g, d |-> (s * d) \div g]

Whole(k) == Frac(k, 1)

\* a + b, a - b over the least common denominator
FAdd(a, b) ==
    LET g == Gcd(a.d, b.d)
    IN Frac(a.n * (b.d \div g) + b.n * (a.d \div g), (a.d \div g) * b.d)

FSub(a, b) == FAdd(a, [n |-> 0 - b.n, d |-> b.d])

\* a * b, the common factors taken out before the products are formed
FMul(a, b) ==
    LET g1 == Gcd(Abs(a.n), b.d)
        g2 == Gcd(Abs(b.n), a.d)
    IN Frac((a.n \div g1) * (b.n \div g2), (a.d \div g2) * (b.d \div g1))

\* a / b, b # 0
FDiv(a, b) ==
    FMul(a, IF b.n < 0 THEN [n |-> 0 - b.d, d |-> 0 - b.n]
            ELSE [n |-> b.d, d |-> b.n])

\* an / ad <= bn / bd for ad, bd > 0, by whole parts and then remainders
RECURSIVE LeqQ(_, _, _, _)
LeqQ(an, ad, bn, bd) ==
    IF an \div ad # bn \div bd THEN an \div ad < bn \div bd
    ELSE IF an % ad = 0 THEN TRUE
    ELSE IF bn % bd = 0 THEN FALSE
    ELSE LeqQ(bd, bn % bd, ad, an % ad)

FLeq(a, b) == LeqQ(a.n, a.d, b.n, b.d)
FLess(a, b) == ~FLeq(b, a)

\* round(x, 2): the nearest hundredth, a tie going to the even one
Round2(x) ==
    LET k == (x.n * 100) \div x.d
        twice == 2 * (x.n * 100 - k * x.d)
        up == twice > x.d \/ (twice = x.d /\ k % 2 = 1)
    IN Frac(IF up THEN k + 1 ELSE k, 100)

----------------------------------------------------------------------------
(* Program constants *)

\* prediction_engine.py SECURITIES
SECURITIES ==
    [i \in {"US67066G1040", "US0378331005", "US5949181045"} |->
        CASE i = "US67066G1040" ->
                [name |-> "NVIDIA Corp", current_price |-> Whole(100),
                 volatility |-> Frac(3, 100), trend |-> "bullish"]
          [] i = "US0378331005" ->
                [name |-> "Apple Inc", current_price |-> Whole(200),
                 volatility |-> Frac(2, 100), trend |-> "neutral"]
          [] i = "US5949181045" ->
                [name |-> "Microsoft Corp", current_price |-> Frac(355, 10),
                 volatility |-> Frac(25, 1000), trend |-> "bullish"]]

\* market_data.py ISIN_TO_TICKER
ISIN_TO_TICKER ==
    [i \in {"US67066G1040", "US0378331005", "US5949181045"} |->
        CASE i = "US67066G1040" -> "NVDA"
          [] i = "US0378331005" -> "AAPL"
          [] i = "US5949181045" -> "MSFT"]

\* predictor.py: pred_len = horizon_days * 78
IntervalsPerDay == 78

\* request inputs: a catalogued security and one that is in no catalog
Isins == {"US67066G1040", "UNKNOWN"}

----------------------------------------------------------------------------
(* Strings: os.getenv("KRONOS_MODE", "auto").lower() *)

Unset == [isSet |-> FALSE, value |-> <<>>]
EnvSet(str) == [isSet |-> TRUE, value |-> str]

\* values of KRONOS_MODE the process may be started with
EnvValues ==
    {Unset,
     EnvSet(<<"A","U","T","O">>),
     EnvSet(<<"s","i","m","u","l","a","t","e","d">>),
     EnvSet(<<"S","I","M","U","L","A","T","E","D">>),
     EnvSet(<<"k","r","o","n","o","s">>)}

\* os.getenv(name, default)
Getenv(e, default) == IF e.isSet THEN e.value ELSE default

UpperCase == <<"A","D","E","I","L","M","O","S","T","U">>
LowerCase == <<"a","d","e","i","l","m","o","s","t","u">>

\* str.lower() on one character
LowerChar(c) ==
    IF \E i \in 1..Len(UpperCase) : UpperCase[i] = c
    THEN LowerCase[CHOOSE i \in 1..Len(UpperCase) : UpperCase[i] = c]
    ELSE c

Lower_asIs(str) == str

\* str.lower()
Lower(str) == [i \in 1..Len(str) |-> LowerChar(str[i])]

\* mode = os.getenv("KRONOS_MODE", "auto").lower()
Mode(e) == Lower(Getenv(e, <<"a","u","t","o">>))

----------------------------------------------------------------------------
(* Dates: (base_date + timedelta(days=day)).strftime("%Y-%m-%d") *)

IsLeap(y) == (y % 4 = 0 /\ y % 100 # 0) \/ y % 400 = 0

DaysInMonth(y, m) ==
    IF m = 2 THEN (IF IsLeap(y) THEN 29 ELSE 28)
    ELSE IF m \in {4, 6, 9, 11} THEN 30 ELSE 31

\* the calendar date n days after the first of month m of year y
RECURSIVE Civil(_, _, _)
Civil(y, m, n) ==
    IF n < DaysInMonth(y, m) THEN <<y, m, n + 1>>
    ELSE IF m = 12 THEN Civil(y + 1, 1, n - DaysInMonth(y, m))
    ELSE Civil(y, m + 1, n - DaysInMonth(y, m))

DigitChars == <<"0","1","2","3","4","5","6","7","8","9">>
DigitChar(n) == DigitChars[n + 1]

\* strftime("%Y-%m-%d") of the day `ord` days after 1 January 2027
Strftime(ord) ==
    LET c == Civil(2027, 1, ord)
        y == c[1]
        m == c[2]
        d == c[3]
    IN <<DigitChar(y \div 1000), DigitChar((y \div 100) % 10),
         DigitChar((y \div 10) % 10), DigitChar(y % 10), "-",
         DigitChar(m \div 10), DigitChar(m % 10), "-",
         DigitChar(d \div 10), DigitChar(d % 10)>>

\* base_date + timedelta(days=day), formatted
PredictionDate(base, day) == Strftime(base + day)

\* days on which a request may arrive: 2027-12-31 and 2028-02-27
BaseDays == {364, 422}

----------------------------------------------------------------------------
(* Backend construction *)

NoBackend == [mode |-> "none", id |-> 0]

\* what the process finds when it tries to use the Kronos dependency:
\*   import  - outcome of `from kronos_integration import ...` (the package
\*             imports pandas and torch at its top)
\*   load    - outcome of RealKronosBackend(): `from .model import ...`, the
\*             from_pretrained downloads and KronosPredictor(...)
Worlds ==
    {[import |-> "ImportError", load |-> "n/a"]} \cup
    {[import |-> "ok", load |-> l] : l \in {"ok", "RuntimeError", "OSError"}}

NoEffects == [determine |-> 0, modeReads |-> 0, ctor |-> 0, loads |-> 0,
              instances |-> 0]

\* kronos_integration.KronosPredictorBackend.__init__: the except clause logs
\* and re-raises whatever the import of .model or the weight load raised
RealKronosBackend_init(w) == IF w.load = "ok" THEN "none" ELSE w.load

\* prediction_engine.KronosPredictorBackend.__init__: the exception it raises,
\* or "none".  Only the import of the package is inside its try block.
KronosPredictorBackend_init(w) ==
    IF w.import # "ok" THEN "RuntimeError"
    ELSE RealKronosBackend_init(w)

\* whether KronosPredictorBackend.__init__ got as far as RealKronosBackend()
ReachesWeightLoad(w) == w.import = "ok"

\* _determine_backend: `if mode == "simulated"`
ForcedSimulated(mode) == mode = <<"s","i","m","u","l","a","t","e","d">>

FallsBack_anyMode(mode, exc) == exc = "RuntimeError"

\* _determine_backend: `except RuntimeError as exc: if mode == "auto"`
FallsBack(mode, exc) == exc = "RuntimeError" /\ mode = <<"a","u","t","o">>

DetermineBackend_trendFallback(e, w, eff) ==
    LET mode == Mode(e)
        e1 == [eff EXCEPT !.determine = @ + 1, !.modeReads = @ + 1]
        fresh(m, ef) == [mode |-> m, id |-> ef.instances + 1]
    IN IF ForcedSimulated(mode)
       THEN [raised |-> "none", backend |-> fresh("simulated", e1),
             effects |-> [e1 EXCEPT !.instances = @ + 1]]
       ELSE LET exc == KronosPredictorBackend_init(w)
                e2 == [e1 EXCEPT !.ctor = @ + 1,
                                 !.loads = IF ReachesWeightLoad(w)
                                           THEN @ + 1 ELSE @]
            IN IF exc = "none"
               THEN [raised |-> "none", backend |-> fresh("model", e2),
                     effects |-> [e2 EXCEPT !.instances = @ + 1]]
               ELSE IF FallsBack(mode, exc)
               THEN [raised |-> "none",
                     backend |-> fresh("trend-real-data", e2),
                     effects |-> [e2 EXCEPT !.instances = @ + 1]]
               ELSE [raised |-> exc, backend |-> NoBackend, effects |-> e2]

\* _determine_backend(): the exception that escapes it (or "none"), the
\* backend it returns, and the side effects it has had
DetermineBackend(e, w, eff) ==
    LET mode == Mode(e)
        e1 == [eff EXCEPT !.determine = @ + 1, !.modeReads = @ + 1]
        fresh(m, ef) == [mode |-> m, id |-> ef.instances + 1]
    IN IF ForcedSimulated(mode)
       THEN [raised |-> "none", backend |-> fresh("simulated", e1),
             effects |-> [e1 EXCEPT !.instances = @ + 1]]
       ELSE LET exc == KronosPredictorBackend_init(w)
                e2 == [e1 EXCEPT !.ctor = @ + 1,
                                 !.loads = IF ReachesWeightLoad(w)
                                           THEN @ + 1 ELSE @]
            IN IF exc = "none"
               THEN [raised |-> "none", backend |-> fresh("model", e2),
                     effects |-> [e2 EXCEPT !.instances = @ + 1]]
               ELSE IF FallsBack(mode, exc)
               THEN [raised |-> "none", backend |-> fresh("simulated", e2),
                     effects |-> [e2 EXCEPT !.instances = @ + 1]]
               ELSE [raised |-> exc, backend |-> NoBackend, effects |-> e2]

----------------------------------------------------------------------------
(* Outcomes of a predict call: a Prediction, or a raised exception *)

Raise(exc, msg, trace) ==
    [raised |-> exc, msg |-> msg, points |-> <<>>, name |-> "", rows |-> 0,
     trace |-> trace]

Returns(points, name, rows, trace) ==
    [raised |-> "none", msg |-> "", points |-> points, name |-> name,
     rows |-> rows, trace |-> trace]

Min(a, b) == IF a < b THEN a ELSE b
Max(a, b) == IF a > b THEN a ELSE b

----------------------------------------------------------------------------
(* market_data.py.  The provider's answers are inputs:                     *)
(*   bars   rows left by ticker.history(...) after dropna, -1 if it raised *)
(*          or returned an empty frame                                     *)
(*   quote  "live": fast_info.last_price was read; "close": it raised and  *)
(*          the one-bar daily history was fetched; "fail": both failed     *)

ProviderDown == 0 - 1
BarChoices == {ProviderDown, 25}
QuoteChoices == {"live", "close", "fail"}

\* df.tail(lookback): the last `lookback` rows, or for a negative lookback
\* all rows but the first -lookback
TailLen(rows, lookback) ==
    IF lookback >= 0 THEN Min(rows, lookback) ELSE Max(rows + lookback, 0)

\* get_historical_data: [raised, msg, rows].  An unmapped ISIN raises before
\* the provider is called; every failure inside the try block (no data,
\* x_timestamp[0] on an empty frame) is re-raised as ValueError.
GetHistoricalData(isin, lookback, bars) ==
    IF isin \notin DOMAIN ISIN_TO_TICKER
    THEN [raised |-> "ValueError", msg |-> "ISIN not supported", rows |-> 0]
    ELSE IF bars = ProviderDown \/ TailLen(bars, lookback) = 0
    THEN [raised |-> "ValueError", msg |-> "Failed to fetch market data",
          rows |-> 0]
    ELSE [raised |-> "none", msg |-> "", rows |-> TailLen(bars, lookback)]

GetCurrentPrice_noFallback(isin, quote) ==
    IF isin \notin DOMAIN ISIN_TO_TICKER
    THEN [raised |-> "ValueError", msg |-> "ISIN not supported",
          source |-> "none", trace |-> <<"get_current_price">>]
    ELSE IF quote = "live"
    THEN [raised |-> "none", msg |-> "", source |-> "last_price",
          trace |-> <<"get_current_price", "fast_info">>]
    ELSE [raised |-> "Exception", msg |-> "fast_info failed",
          source |-> "none", trace |-> <<"get_current_price", "fast_info">>]

\* get_current_price: [raised, msg, source, trace]
GetCurrentPrice(isin, quote) ==
    IF isin \notin DOMAIN ISIN_TO_TICKER
    THEN [raised |-> "ValueError", msg |-> "ISIN not supported",
          source |-> "none", trace |-> <<"get_current_price">>]
    ELSE IF quote = "live"
    THEN [raised |-> "none", msg |-> "", source |-> "last_price",
          trace |-> <<"get_current_price", "fast_info">>]
    ELSE LET hist == GetHistoricalData(isin, 1, IF quote = "close" THEN 1
                                                 ELSE ProviderDown)
         IN [raised |-> hist.raised, msg |-> hist.msg,
             source |-> IF hist.raised = "none" THEN "last_close" ELSE "none",
             trace |-> <<"get_current_price", "fast_info",
                         "get_historical_data">>]

----------------------------------------------------------------------------
(* SimulatedPredictorBackend.predict *)

SimulatedPredict_defaulting(isin, h, base) ==
    IF h <= 0
    THEN Raise("IndexError", "list index out of range", <<"predict">>)
    ELSE Returns([d \in 1..h |-> [date |-> PredictionDate(base, d)]],
                 IF isin \in DOMAIN SECURITIES THEN SECURITIES[isin].name
                 ELSE "Unknown Security", 0, <<"predict">>)

SimulatedPredict(isin, h, base) ==
    IF isin \notin DOMAIN SECURITIES
    THEN Raise("ValueError", "Unknown ISIN", <<"predict">>)
    ELSE IF h <= 0
    \* range(1, horizon_days + 1) is empty and predictions[-1] raises
    THEN Raise("IndexError", "list index out of range", <<"predict">>)
    ELSE Returns([d \in 1..h |-> [date |-> PredictionDate(base, d)]],
                 SECURITIES[isin].name, 0, <<"predict">>)

----------------------------------------------------------------------------
(* kronos_integration.KronosPredictorBackend.predict and the adapter       *)
(* prediction_engine.KronosPredictorBackend.predict around it.             *)
(*   rows   rows of pred_df returned by the model, -1 if inference raised  *)

InferenceFails == 0 - 1

\* row counts the model may answer with for a horizon
RowChoices(h) ==
    {InferenceFails, 0, IntervalsPerDay - 1, IntervalsPerDay,
     Max(h, 1) * IntervalsPerDay - 1, Max(h, 0) * IntervalsPerDay}

DayAvailable_unguarded(day, n) == TRUE

DayAvailable_fromFirstRow(day, n) == day * IntervalsPerDay < n

\* `day_end_idx = (day + 1) * 78 - 1; if day_end_idx < len(pred_df)`
DayAvailable(day, n) == (day + 1) * IntervalsPerDay - 1 < n

\* `for day in range(horizon_days)`: the daily points from `day` on
RECURSIVE DailyPredictions(_, _, _, _)
DailyPredictions(day, h, n, base) ==
    IF day >= h THEN <<>>
    ELSE (IF DayAvailable(day, n)
          THEN <<[date |-> PredictionDate(base, day + 1), day |-> day + 1,
                  row |-> (day + 1) * IntervalsPerDay - 1]>>
          ELSE <<>>) \o DailyPredictions(day + 1, h, n, base)

\* predictor.py predict: every exception is logged and re-raised
RealKronosPredict(isin, h, base, bars, rows, quote) ==
    LET hist == GetHistoricalData(isin, 400, bars)
        t1 == <<"predict", "get_historical_data">>
        t2 == t1 \o <<"model.predict">>
        price == GetCurrentPrice(isin, quote)
    IN IF hist.raised # "none" THEN Raise(hist.raised, hist.msg, t1)
       ELSE IF rows = InferenceFails
       THEN Raise("Exception", "model inference failed", t2)
       ELSE IF price.raised # "none"
       THEN Raise(price.raised, price.msg, t2 \o price.trace)
       ELSE Returns(DailyPredictions(0, h, rows, base), "", rows,
                    t2 \o price.trace)

\* prediction_engine.KronosPredictorBackend.predict: an exception of the
\* wrapped backend passes through; otherwise the points keep their dates and
\* the display name comes from SECURITIES.get(isin, {}).get("name", ...)
KronosPredict(isin, h, base, bars, rows, quote) ==
    LET raw == RealKronosPredict(isin, h, base, bars, rows, quote)
    IN IF raw.raised # "none" THEN raw
       ELSE Returns([i \in 1..Len(raw.points) |-> [date |-> raw.points[i].date]],
                    IF isin \in DOMAIN SECURITIES THEN SECURITIES[isin].name
                    ELSE "Unknown Security", raw.rows, raw.trace)

----------------------------------------------------------------------------
(* RealDataFallbackPredictor.predict *)

RealDataFallbackPredict(isin, h, base, bars, quote) ==
    LET hist == GetHistoricalData(isin, Min(60, h * 20), bars)
        t1 == <<"predict", "get_historical_data">>
        price == GetCurrentPrice(isin, quote)
    IN IF hist.raised # "none" THEN Raise(hist.raised, hist.msg, t1)
       ELSE IF price.raised # "none"
       THEN Raise(price.raised, price.msg, t1 \o price.trace)
       ELSE IF h <= 0
       \* range(1, horizon_days + 1) is empty and predictions[-1] raises
       THEN Raise("IndexError", "list index out of range", t1 \o price.trace)
       ELSE Returns([d \in 1..h |-> [date |-> PredictionDate(base, d)]],
                    IF isin \in DOMAIN SECURITIES THEN SECURITIES[isin].name
                    ELSE "Unknown Security", 0, t1 \o price.trace)


----------------------------------------------------------------------------
(* The process: import of prediction_engine, then calls *)

NoRequest == [isin |-> "", h |-> 0, backend |-> NoBackend]

NoResult ==
    [kind |-> "none", via |-> "", isin |-> "", h |-> 0, backend |-> NoBackend,
     backendRaised |-> "n/a", exc |-> "", msg |-> "", points |-> <<>>,
     name |-> "", rows |-> 0, trace |-> <<>>]

\* what the caller of `via` gets from a call whose backend predict ended as
\* backendOut and which itself ended as out
Result(via, isin, h, backend, backendOut, out) ==
    [kind |-> IF out.raised = "none" THEN "prediction" ELSE "error",
     via |-> via, isin |-> isin, h |-> h, backend |-> backend,
     backendRaised |-> backendOut.raised,
     exc |-> IF out.raised = "none" THEN "" ELSE out.raised,
     msg |-> out.msg, points |-> out.points, name |-> out.name,
     rows |-> out.rows, trace |-> out.trace]

InvalidHorizon_negativeOnly(horizon_days) == horizon_days < 0

\* generate_prediction: `if horizon_days <= 0`
InvalidHorizon(horizon_days) == horizon_days <= 0

\* generate_prediction: `raise ValueError("horizon_days must be positive")`
HorizonError(isin, h, backend) ==
    Result("generate_prediction", isin, h, backend, Raise("n/a", "", <<>>),
           Raise("ValueError", "horizon_days must be positive", <<>>))

\* backend.predict(isin, horizon_days) by the class of the backend
BackendPredict(backend, isin, h, base, bars, rows, quote) ==
    IF backend.mode = "simulated" THEN SimulatedPredict(isin, h, base)
    ELSE KronosPredict(isin, h, base, bars, rows, quote)

FacadeOutcome_swallow(isin, h, base, out) ==
    IF out.raised = "none" THEN out
    ELSE SimulatedPredict_defaulting(isin, Max(h, 1), base)

\* generate_prediction: `return PREDICTOR_BACKEND.predict(isin, horizon_days)`,
\* the backend's Prediction or its exception, untouched
FacadeOutcome(isin, h, base, out) == out

\* generate_prediction from the call of predict on
PredictResult(backend, isin, h, base, bars, rows, quote) ==
    LET out == BackendPredict(backend, isin, h, base, bars, rows, quote)
    IN Result("generate_prediction", isin, h, backend, out,
              FacadeOutcome(isin, h, base, out))

BoundBackend_perThread(t) ==
    [mode |-> PREDICTOR_BACKEND.mode, id |-> PREDICTOR_BACKEND.id + t]

\* generate_prediction on thread t: `PREDICTOR_BACKEND`, the module global
BoundBackend(t) == PREDICTOR_BACKEND

Init ==
    /\ env \in EnvValues
    /\ world \in Worlds
    /\ moduleState = "unimported"
    /\ importError = "none"
    /\ PREDICTOR_BACKEND = NoBackend
    /\ effects = NoEffects
    /\ pc = [t \in Threads |-> "idle"]
    /\ req = [t \in Threads |-> NoRequest]
    /\ last = NoResult
    /\ outcomes = {}
    /\ servedBy = {}

ImportModule_deferred ==
    /\ moduleState = "unimported"
    /\ moduleState' = "ready"
    /\ UNCHANGED <<env, world, importError, PREDICTOR_BACKEND, effects, pc,
                   req, last, outcomes, servedBy>>

\* the module body: PREDICTOR_BACKEND = _determine_backend(); the names after
\* that line (generate_prediction) exist only if it did not raise
ImportModule ==
    /\ moduleState = "unimported"
    /\ LET r == DetermineBackend(env, world, effects)
       IN /\ effects' = r.effects
          /\ PREDICTOR_BACKEND' = r.backend
          /\ importError' = r.raised
          /\ moduleState' = IF r.raised = "none" THEN "ready" ELSE "failed"
    /\ UNCHANGED <<env, world, pc, req, last, outcomes, servedBy>>

\* the results a call can have, over what the provider and the model answer
PossibleResults(backend, isin, h) ==
    IF InvalidHorizon(h) THEN {HorizonError(isin, h, backend)}
    ELSE {PredictResult(backend, isin, h, base, bars, rows, quote) :
            base \in BaseDays, bars \in BarChoices, rows \in RowChoices(h),
            quote \in QuoteChoices}

GeneratePrediction_reselect(isin, horizon_days) ==
    /\ moduleState = "ready"
    /\ LET r == DetermineBackend(env, world, effects)
       IN /\ r.raised = "none"
          /\ effects' = r.effects
          /\ PREDICTOR_BACKEND' = r.backend
          /\ \E result \in PossibleResults(r.backend, isin, horizon_days) :
                /\ last' = result
                /\ outcomes' = outcomes \cup {result.kind}
          /\ servedBy' = IF InvalidHorizon(horizon_days) THEN servedBy
                         ELSE servedBy \cup {r.backend.id}
    /\ UNCHANGED <<env, world, moduleState, importError, pc, req>>

\* generate_prediction(isin, horizon_days), one whole call
GeneratePrediction(isin, horizon_days) ==
    /\ moduleState = "ready"
    /\ \E result \in PossibleResults(PREDICTOR_BACKEND, isin, horizon_days) :
          /\ last' = result
          /\ outcomes' = outcomes \cup {result.kind}
    /\ servedBy' = IF InvalidHorizon(horizon_days) THEN servedBy
                   ELSE servedBy \cup {PREDICTOR_BACKEND.id}
    /\ UNCHANGED <<env, world, moduleState, importError, PREDICTOR_BACKEND,
                   effects, pc, req>>

\* RealDataFallbackPredictor().predict(isin, horizon_days) called directly;
\* fallback_predictor imports prediction_engine, so that import has succeeded
TrendPredict(isin, horizon_days) ==
    /\ moduleState = "ready"
    /\ \E out \in {RealDataFallbackPredict(isin, horizon_days, base, bars, quote) :
                     base \in BaseDays, bars \in BarChoices,
                     quote \in QuoteChoices} :
          last' = Result("RealDataFallbackPredictor", isin, horizon_days,
                         [mode |-> "trend-real-data", id |-> 0], out, out)
    /\ UNCHANGED <<env, world, moduleState, importError, PREDICTOR_BACKEND,
                   effects, pc, req, outcomes, servedBy>>

Next ==
    \/ ImportModule
    \/ \E isin \in Isins, h \in Horizons : GeneratePrediction(isin, h)
    \/ \E isin \in Isins, h \in Horizons : TrendPredict(isin, h)

Spec == Init /\ [][Next]_vars

----------------------------------------------------------------------------
(* Calls that overlap: generate_prediction on several threads, each blocked *)
(* in the backend's predict (provider and model calls) for a while          *)

\* generate_prediction on thread t, up to the call of the backend's predict
BeginPrediction(t, isin, horizon_days) ==
    /\ moduleState = "ready"
    /\ pc[t] = "idle"
    /\ IF InvalidHorizon(horizon_days)
       THEN /\ last' = HorizonError(isin, horizon_days, BoundBackend(t))
            /\ outcomes' = outcomes \cup {"error"}
            /\ UNCHANGED <<pc, req>>
       ELSE /\ pc' = [pc EXCEPT ![t] = "predicting"]
            /\ req' = [req EXCEPT ![t] =
                  [isin |-> isin, h |-> horizon_days,
                   backend |-> BoundBackend(t)]]
            /\ UNCHANGED <<last, outcomes>>
    /\ UNCHANGED <<env, world, moduleState, importError, PREDICTOR_BACKEND,
                   effects, servedBy>>

\* generate_prediction on thread t, from the return of predict on
FinishPrediction(t, base, bars, rows, quote) ==
    /\ pc[t] = "predicting"
    /\ rows \in RowChoices(req[t].h)
    /\ LET result == PredictResult(req[t].backend, req[t].isin, req[t].h,
                                   base, bars, rows, quote)
       IN /\ last' = result
          /\ outcomes' = outcomes \cup {result.kind}
    /\ servedBy' = servedBy \cup {req[t].backend.id}
    /\ pc' = [pc EXCEPT ![t] = "idle"]
    /\ req' = [req EXCEPT ![t] = NoRequest]
    /\ UNCHANGED <<env, world, moduleState, importError, PREDICTOR_BACKEND,
                   effects>>

NextConcurrent ==
    \/ ImportModule
    \/ \E t \in Threads, isin \in Isins, h \in {0, 1} :
          BeginPrediction(t, isin, h)
    \/ \E t \in Threads, bars \in BarChoices,
          rows \in {InferenceFails, IntervalsPerDay} :
          FinishPrediction(t, 364, bars, rows, "live")

SpecConcurrent == Init /\ [][NextConcurrent]_vars

----------------------------------------------------------------------------
(* The Prediction in full: prices, confidence bounds, signal, trend.       *)
(* Further answers of the outside world are inputs:                        *)
(*   series  the close column of the model's pred_df                       *)
(*   shocks  np.random.normal(0, volatility), one draw per day             *)
(*   u       the np.random.uniform draw, as a fraction of its range        *)
(*   prices  the close column of the daily history                         *)
(*   noise   np.random.randn(), one draw per day                           *)

\* what a failed call leaves of the Prediction
Failure(out) ==
    [raised |-> out.raised, msg |-> out.msg, points |-> <<>>,
     name |-> out.name, rows |-> out.rows, trace |-> out.trace,
     current_price |-> Whole(0), signal |-> "", confidence |-> Whole(0),
     trend |-> "", ai_summary |-> "", raw |-> <<>>]

\* Prediction(...): shape carries the dates, the name and the call trace
PredictionOf(shape, points, current_price, verdict, raw) ==
    [raised |-> "none", msg |-> "", points |-> points, name |-> shape.name,
     rows |-> shape.rows, trace |-> shape.trace,
     current_price |-> current_price, signal |-> verdict.signal,
     confidence |-> verdict.confidence, trend |-> verdict.trend,
     ai_summary |-> verdict.ai_summary, raw |-> raw]

\* `((final_price - current_price) / current_price) * 100`
PriceChangePct(final_price, current_price) ==
    FMul(FDiv(FSub(final_price, current_price), current_price), Whole(100))

\* float(info.last_price) or float(df['close'].iloc[-1]): the provider
\* quotes 100, or else the close of its latest daily bar is used
QuotedPrice(source, last_close) ==
    IF source = "last_price" THEN Whole(100) ELSE Whole(last_close)

\* close columns the model may answer with: flat at a level, or rising by
\* one a row
ModelSeries ==
    {[start |-> s, step |-> 0] : s \in {0 - 10, 97, 98, 100, 102, 103}}
    \cup {[start |-> 25, step |-> 1]}

\* float(pred_df.iloc[row]['close'])
Close(series, row) == Whole(series.start + series.step * row)

\* predictor.py predict, the dictionary it returns: the daily predictions
\* with their prices, and current_price
RealKronosForecast(isin, h, base, bars, rows, quote, series) ==
    LET shape == RealKronosPredict(isin, h, base, bars, rows, quote)
    IN IF shape.raised # "none"
       THEN [raised |-> shape.raised, predictions |-> <<>>,
             current_price |-> Whole(0)]
       ELSE [raised |-> "none",
             predictions |->
                [i \in 1..Len(shape.points) |->
                    [date |-> shape.points[i].date,
                     day |-> shape.points[i].day,
                     row |-> shape.points[i].row,
                     predicted_price |-> Close(series, shape.points[i].row),
                     confidence |-> Frac(85, 100)]],
             current_price |->
                QuotedPrice(GetCurrentPrice(isin, quote).source, 99)]

\* the adapter's PredictionPoint for one raw point
KronosPoint(pred_point) ==
    LET predicted_price == pred_point.predicted_price
        confidence_width ==
            FMul(FMul(predicted_price,
                      FSub(Whole(1), pred_point.confidence)), Frac(1, 2))
    IN [date |-> pred_point.date, predicted_price |-> predicted_price,
        confidence_lower |-> FSub(predicted_price, confidence_width),
        confidence_upper |-> FAdd(predicted_price, confidence_width)]

HasPredictions_always(predictions) == TRUE

\* the adapter: `if predictions:`
HasPredictions(predictions) == Len(predictions) > 0

KronosSignal_inclusive(price_change_pct) ==
    IF FLeq(Whole(2), price_change_pct)
    THEN [signal |-> "BUY", trend |-> "bullish", confidence |-> Frac(85, 100)]
    ELSE IF FLeq(price_change_pct, Whole(0 - 2))
    THEN [signal |-> "SELL", trend |-> "bearish", confidence |-> Frac(82, 100)]
    ELSE [signal |-> "HOLD", trend |-> "neutral", confidence |-> Frac(75, 100)]

\* the adapter: `if price_change_pct > 2: ... elif price_change_pct < -2:`
KronosSignal(price_change_pct) ==
    IF FLess(Whole(2), price_change_pct)
    THEN [signal |-> "BUY", trend |-> "bullish", confidence |-> Frac(85, 100)]
    ELSE IF FLess(price_change_pct, Whole(0 - 2))
    THEN [signal |-> "SELL", trend |-> "bearish", confidence |-> Frac(82, 100)]
    ELSE [signal |-> "HOLD", trend |-> "neutral", confidence |-> Frac(75, 100)]

\* prediction_engine.KronosPredictorBackend.predict, the Prediction in full
KronosPrediction(isin, h, base, bars, rows, quote, series) ==
    LET shape == KronosPredict(isin, h, base, bars, rows, quote)
        raw_result == RealKronosForecast(isin, h, base, bars, rows, quote,
                                         series)
        raw == raw_result.predictions
        predictions == [i \in 1..Len(raw) |-> KronosPoint(raw[i])]
        current_price == raw_result.current_price
    IN IF shape.raised # "none" THEN Failure(shape)
       ELSE IF HasPredictions(predictions)
       THEN IF Len(predictions) = 0
            \* predictions[-1] of an empty list
            THEN Failure(Raise("IndexError", "list index out of range",
                               shape.trace))
            ELSE LET final_price ==
                        predictions[Len(predictions)].predicted_price
                     v == KronosSignal(PriceChangePct(final_price,
                                                      current_price))
                 IN PredictionOf(shape, predictions, current_price,
                        [signal |-> v.signal, confidence |-> v.confidence,
                         trend |-> v.trend,
                         ai_summary |-> "Kronos model predicts {pct:+.1f}% move in {days} days. Model: {model_version}"],
                        raw)
       ELSE PredictionOf(shape, predictions, current_price,
                [signal |-> "HOLD", confidence |-> Frac(5, 10),
                 trend |-> "neutral",
                 ai_summary |-> "Insufficient data for prediction"],
                raw)

----------------------------------------------------------------------------
(* SimulatedPredictorBackend.predict and main.generate_smart_prediction,   *)
(* in full                                                                 *)

\* `if trend == "bullish": ... elif trend == "bearish": ... else:`
TrendParameters(trend) ==
    IF trend = "bullish"
    THEN [drift |-> Frac(15, 1000), signal |-> "BUY",
          low |-> Frac(78, 100), high |-> Frac(92, 100),
          summary |-> "Strong upward momentum detected. Predicted {pct:+.1f}% move in {days} days. Technical indicators suggest continued bullish trend."]
    ELSE IF trend = "bearish"
    THEN [drift |-> Frac(0 - 12, 1000), signal |-> "SELL",
          low |-> Frac(75, 100), high |-> Frac(88, 100),
          summary |-> "Bearish signals detected. Predicted {pct:+.1f}% move in {days} days. Consider profit-taking or position reduction."]
    ELSE [drift |-> Frac(2, 1000), signal |-> "HOLD",
          low |-> Frac(65, 100), high |-> Frac(78, 100),
          summary |-> "Neutral outlook. Predicted {pct:+.1f}% move in {days} days. Market consolidation expected."]

\* draws of np.random.normal(0, volatility) and, as a fraction of its range,
\* of np.random.uniform(low, high)
ShockChoices == {Frac(0 - 7, 200), Frac(0 - 3, 200), Frac(1, 300)}
UniformChoices == {Whole(0), Frac(1, 2)}

\* the PredictionPoint of one day of the loop
SimulatedPoint(security, drift, day, random_shock, date) ==
    LET current_price == security.current_price
        price_change == FMul(current_price, FAdd(drift, random_shock))
        predicted_price == FAdd(current_price, FMul(price_change, Whole(day)))
        confidence_width ==
            FMul(FMul(security.volatility, current_price),
                 FAdd(Whole(1), FMul(Frac(3, 10), Whole(day))))
    IN [date |-> date, predicted_price |-> Round2(predicted_price),
        confidence_lower |-> Round2(FSub(predicted_price, confidence_width)),
        confidence_upper |-> Round2(FAdd(predicted_price, confidence_width))]

SimulatedPrediction(isin, h, base, shocks, u) ==
    LET shape == SimulatedPredict(isin, h, base)
    IN IF shape.raised # "none" THEN Failure(shape)
       ELSE LET security == SECURITIES[isin]
                par == TrendParameters(security.trend)
            IN PredictionOf(shape,
                  [d \in 1..h |-> SimulatedPoint(security, par.drift, d,
                                        shocks[d], shape.points[d].date)],
                  security.current_price,
                  [signal |-> par.signal,
                   confidence |-> Round2(FAdd(par.low,
                                    FMul(u, FSub(par.high, par.low)))),
                   trend |-> security.trend, ai_summary |-> par.summary],
                  <<>>)

\* main.py: PredictionRequest.horizon_days and the query parameter default
DefaultHorizon == 5

\* main.generate_smart_prediction: its own copy of SECURITIES holds the same
\* entries, and its body repeats SimulatedPredictorBackend.predict
GenerateSmartPrediction(isin, horizon_days, base, shocks, u) ==
    SimulatedPrediction(isin, horizon_days, base, shocks, u)

\* the status of the HTTP response: main.py raises no HTTPException and
\* registers no exception handler, so an exception that leaves a route
\* handler is answered by the framework's 500
ResponseStatus(answer) == IF answer.kind = "prediction" THEN 200 ELSE 500

----------------------------------------------------------------------------
(* RealDataFallbackPredictor.predict in full *)

Level(n, price) == [i \in 1..n |-> price]

\* close columns of the provider's daily history, oldest first; <<>> when
\* the provider fails or has no data
DailyHistories ==
    {<<>>, <<100>>, <<100, 140>>, <<100, 60>>, Level(20, 100), Level(25, 100),
     <<110>> \o Level(16, 100) \o Level(3, 110),
     <<100>> \o Level(16, 110) \o Level(3, 100)}

\* draws of np.random.randn()
NoiseChoices == {Whole(0), Whole(2)}

\* df.tail(lookback)['close'].values; the closes here are whole numbers
DfTail(closes, lookback) ==
    LET rows == TailLen(Len(closes), lookback)
    IN [i \in 1..rows |-> closes[Len(closes) - rows + i]]

\* the sum of the first k elements, and of their squares
RECURSIVE Sum(_, _)
Sum(xs, k) == IF k = 0 THEN 0 ELSE Sum(xs, k - 1) + xs[k]

RECURSIVE SumSq(_, _)
SumSq(xs, k) == IF k = 0 THEN 0 ELSE SumSq(xs, k - 1) + xs[k] * xs[k]

\* prices[-k:]
LastK(xs, k) == SubSeq(xs, Max(Len(xs) - k, 0) + 1, Len(xs))

\* np.mean
Mean(xs) == Frac(Sum(xs, Len(xs)), Len(xs))

\* the root of a fraction whose numerator and denominator are squares
ExactRoot(x) ==
    Frac(CHOOSE r \in 0..x.n : r * r = x.n, CHOOSE r \in 1..x.d : r * r = x.d)

\* np.std, the population standard deviation: the mean of the squared
\* deviations from the mean is (n * sum(x^2) - sum(x)^2) / n^2
Std(xs) ==
    LET n == Len(xs)
        sum == Sum(xs, n)
    IN ExactRoot(Frac(n * SumSq(xs, n) - sum * sum, n * n))

\* `if sma_short > sma_long * 1.01: ... elif sma_short < sma_long * 0.99:`
TrendDirection(sma_short, sma_long) ==
    IF FLess(FMul(sma_long, Frac(101, 100)), sma_short) THEN "bullish"
    ELSE IF FLess(sma_short, FMul(sma_long, Frac(99, 100))) THEN "bearish"
    ELSE "neutral"

\* `if price_change_pct > 2: ... elif price_change_pct < -2: ... else:`
TrendSignal(price_change_pct) ==
    IF FLess(Whole(2), price_change_pct)
    THEN [signal |-> "BUY", confidence |-> Frac(75, 100)]
    ELSE IF FLess(price_change_pct, Whole(0 - 2))
    THEN [signal |-> "SELL", confidence |-> Frac(72, 100)]
    ELSE [signal |-> "HOLD", confidence |-> Frac(70, 100)]

\* the loop: predicted_price after each of the days from `day` on
RECURSIVE TrendPath(_, _, _, _, _)
TrendPath(day, h, predicted_price, trend_factor, noise) ==
    IF day > h THEN <<>>
    ELSE LET noise_factor == FAdd(Whole(1), FMul(noise[day], Frac(1, 100)))
             next == FMul(FMul(predicted_price, trend_factor), noise_factor)
         IN <<next>> \o TrendPath(day + 1, h, next, trend_factor, noise)

TrendPrediction(isin, h, base, closes, quote, noise) ==
    LET shape == RealDataFallbackPredict(isin, h, base,
                    IF closes = <<>> THEN ProviderDown ELSE Len(closes),
                    quote)
    IN IF shape.raised # "none" THEN Failure(shape)
       ELSE
       LET prices == DfTail(closes, Min(60, h * 20))
           current_price ==
               QuotedPrice(GetCurrentPrice(isin, quote).source,
                           closes[Len(closes)])
           sma_short == IF Len(prices) >= 5 THEN Mean(LastK(prices, 5))
                        ELSE current_price
           sma_long == IF Len(prices) >= 20 THEN Mean(LastK(prices, 20))
                       ELSE current_price
           price_change ==
               Frac(prices[Len(prices)] - prices[1], prices[1])
           volatility == IF Len(prices) > 1 THEN Std(prices)
                         ELSE FMul(Whole(prices[Len(prices)]), Frac(2, 100))
           daily_change_pct == FDiv(price_change, Whole(Len(prices)))
           trend_factor == FAdd(Whole(1), FMul(daily_change_pct, Frac(15, 10)))
           path == TrendPath(1, h, current_price, trend_factor, noise)
           confidence_width == FMul(volatility, Frac(5, 10))
           predictions ==
               [d \in 1..h |->
                   [date |-> shape.points[d].date,
                    predicted_price |-> path[d],
                    confidence_lower |-> FSub(path[d], confidence_width),
                    confidence_upper |-> FAdd(path[d], confidence_width)]]
           v == TrendSignal(PriceChangePct(path[h], current_price))
       IN PredictionOf(shape, predictions, current_price,
             [signal |-> v.signal, confidence |-> v.confidence,
              trend |-> TrendDirection(sma_short, sma_long),
              ai_summary |-> "Trend-based analysis predicts {pct:+.1f}% movement in {days} days. Market {trend} with {volatility:.2f} volatility. Real data from Yahoo Finance ({n} points). [Kronos model unavailable - using statistical forecasting]"],
             <<>>)

----------------------------------------------------------------------------
(* Direct calls: predict on an instance of each backend class,             *)
(* get_current_price, and the routes of main.py.  The caller takes the     *)
(* answer before the next call is made.                                    *)

\* what the provider and the model answered during a call
Given(bars, rows, quote) ==
    [bars |-> bars, rows |-> rows, quote |-> quote, horizon |-> TRUE]

\* what the caller of `via` gets, in full
Answer(via, isin, h, backend, out, given, source) ==
    [kind |-> IF out.raised = "none" THEN "prediction" ELSE "error",
     via |-> via, isin |-> isin, h |-> h, backend |-> backend,
     backendRaised |-> out.raised,
     exc |-> IF out.raised = "none" THEN "" ELSE out.raised,
     msg |-> out.msg, points |-> out.points, name |-> out.name,
     rows |-> out.rows, trace |-> out.trace,
     current_price |-> out.current_price, signal |-> out.signal,
     confidence |-> out.confidence, trend |-> out.trend,
     ai_summary |-> out.ai_summary, raw |-> out.raw,
     given |-> given, source |-> source]

InitPredict ==
    /\ Init
    /\ env = Unset
    /\ world = [import |-> "ok", load |-> "ok"]

\* KronosPredictorBackend().predict(isin, horizon_days)
KronosCall(isin, horizon_days) ==
    /\ moduleState = "ready"
    /\ KronosPredictorBackend_init(world) = "none"
    /\ last = NoResult
    /\ \E base \in BaseDays, bars \in BarChoices,
          rows \in RowChoices(horizon_days), quote \in QuoteChoices,
          series \in ModelSeries :
          last' = Answer("KronosPredictorBackend", isin, horizon_days,
                         [mode |-> "model", id |-> 0],
                         KronosPrediction(isin, horizon_days, base, bars,
                                          rows, quote, series),
                         Given(bars, rows, quote), "n/a")
    /\ UNCHANGED <<env, world, moduleState, importError, PREDICTOR_BACKEND,
                   effects, pc, req, outcomes, servedBy>>

\* securities a caller may ask the simulated backend for
CatalogIsins == DOMAIN SECURITIES \cup {"UNKNOWN"}

\* SimulatedPredictorBackend().predict(isin, horizon_days)
SimulatedCall(isin, horizon_days) ==
    /\ moduleState = "ready"
    /\ last = NoResult
    /\ \E base \in BaseDays, shocks \in [1..horizon_days -> ShockChoices],
          u \in UniformChoices :
          last' = Answer("SimulatedPredictorBackend", isin, horizon_days,
                         [mode |-> "simulated", id |-> 0],
                         SimulatedPrediction(isin, horizon_days, base,
                                             shocks, u),
                         Given(0, 0, ""), "n/a")
    /\ UNCHANGED <<env, world, moduleState, importError, PREDICTOR_BACKEND,
                   effects, pc, req, outcomes, servedBy>>

\* RealDataFallbackPredictor().predict(isin, horizon_days)
TrendCall(isin, horizon_days) ==
    /\ moduleState = "ready"
    /\ last = NoResult
    /\ \E base \in BaseDays, closes \in DailyHistories,
          quote \in QuoteChoices,
          noise \in [1..horizon_days -> NoiseChoices] :
          last' = Answer("RealDataFallbackPredictor", isin, horizon_days,
                         [mode |-> "trend-real-data", id |-> 0],
                         TrendPrediction(isin, horizon_days, base, closes,
                                         quote, noise),
                         Given(Len(closes), 0, quote), "n/a")
    /\ UNCHANGED <<env, world, moduleState, importError, PREDICTOR_BACKEND,
                   effects, pc, req, outcomes, servedBy>>

\* what a client may send as horizon_days: an integer, or nothing
HorizonInputs ==
    {[given |-> TRUE, value |-> h] : h \in Horizons}
    \cup {[given |-> FALSE, value |-> 0]}

\* POST /predict and GET /predict/{isin}: the handler passes the request's
\* horizon_days, or the default for a request without one, to
\* generate_smart_prediction and returns what it returns
Route(path, isin, horizon) ==
    /\ last = NoResult
    /\ LET horizon_days == IF horizon.given THEN horizon.value
                           ELSE DefaultHorizon
       IN \E base \in BaseDays, shocks \in [1..horizon_days -> ShockChoices],
             u \in UniformChoices :
             last' = Answer(path, isin, horizon_days, NoBackend,
                            GenerateSmartPrediction(isin, horizon_days, base,
                                                    shocks, u),
                            [Given(0, 0, "") EXCEPT
                                !.horizon = horizon.given], "n/a")
    /\ UNCHANGED <<env, world, moduleState, importError, PREDICTOR_BACKEND,
                   effects, pc, req, outcomes, servedBy>>

\* market_data.get_current_price(isin)
CurrentPriceCall(isin) ==
    /\ last = NoResult
    /\ \E quote \in QuoteChoices :
          LET price == GetCurrentPrice(isin, quote)
              out == Failure(Raise(price.raised, price.msg, price.trace))
          IN last' = Answer("get_current_price", isin, 0, NoBackend,
                            [out EXCEPT !.current_price =
                                IF price.raised = "none"
                                THEN QuotedPrice(price.source, 99) ELSE @],
                            Given(0, 0, quote), price.source)
    /\ UNCHANGED <<env, world, moduleState, importError, PREDICTOR_BACKEND,
                   effects, pc, req, outcomes, servedBy>>

\* the caller has taken the answer
TakeResult ==
    /\ last # NoResult
    /\ last' = NoResult
    /\ UNCHANGED <<env, world, moduleState, importError, PREDICTOR_BACKEND,
                   effects, pc, req, outcomes, servedBy>>

NextPredict ==
    \/ ImportModule
    \/ \E isin \in Isins, h \in Horizons : KronosCall(isin, h)
    \/ \E isin \in CatalogIsins, h \in Horizons : SimulatedCall(isin, h)
    \/ \E isin \in Isins, h \in Horizons : TrendCall(isin, h)
    \/ \E path \in {"/predict", "/predict/{isin}"}, isin \in Isins,
          horizon \in HorizonInputs : Route(path, isin, horizon)
    \/ \E isin \in Isins : CurrentPriceCall(isin)
    \/ TakeResult

SpecPredict == InitPredict /\ [][NextPredict]_vars

----------------------------------------------------------------------------
(* Vocabulary of the properties *)

\* KRONOS_MODE selects 'auto': unset, or "auto" in any letter case
AutoEnv(e) ==
    \/ ~e.isSet
    \/ e.value \in {<<"a","u","t","o">>, <<"A","U","T","O">>}

\* KRONOS_MODE selects 'simulated', in any letter case
SimulatedEnv(e) ==
    /\ e.isSet
    /\ e.value \in {<<"s","i","m","u","l","a","t","e","d">>,
                    <<"S","I","M","U","L","A","T","E","D">>}

\* any other value: the model is demanded
StrictEnv(e) == ~AutoEnv(e) /\ ~SimulatedEnv(e)

\* constructing the Model-Backed Backend raises in this process
ConstructionRaises(w) == w.import # "ok" \/ w.load # "ok"

Selected == moduleState # "unimported"

\* some call has been made
Called ==
    \/ last # NoResult
    \/ outcomes # {}
    \/ \E t \in Threads : pc[t] # "idle"

ViaFacade == last.via = "generate_prediction"

CharCode(c) ==
    IF c = "-" THEN 45
    ELSE 47 + (CHOOSE i \in 1..10 : DigitChars[i] = c)

\* a < b for two strings of the same length, as Python compares them
RECURSIVE StrLess(_, _)
StrLess(a, b) ==
    IF a = <<>> \/ b = <<>> THEN FALSE
    ELSE IF CharCode(Head(a)) # CharCode(Head(b))
    THEN CharCode(Head(a)) < CharCode(Head(b))
    ELSE StrLess(Tail(a), Tail(b))

StrictlyIncreasingDates(points) ==
    \A i \in 1..(Len(points) - 1) : StrLess(points[i].date, points[i + 1].date)

----------------------------------------------------------------------------
(* C1: backend selection is idempotent. After any sequence of              *)
(* generate_prediction calls, successful or failing, _determine_backend    *)
(* has run at most once, at most one backend instance has been built, and  *)
(* every call was served by that one instance.                             *)
C1_SelectionIdempotent ==
    /\ effects.determine <= 1
    /\ effects.loads <= 1
    /\ effects.instances <= 1
    /\ servedBy \subseteq {PREDICTOR_BACKEND.id}
    /\ ViaFacade => last.backend = PREDICTOR_BACKEND

C1_Witness ==
    /\ outcomes = {"error", "prediction"}
    /\ PREDICTOR_BACKEND.mode = "model"
    /\ servedBy = {PREDICTOR_BACKEND.id}
    /\ ViaFacade

(* C2: under 'auto', whatever exception the construction of the            *)
(* Model-Backed Backend raises, selection ends READY(simulated).           *)
C2_AutoFallsBackOnAnyError ==
    (Selected /\ AutoEnv(env) /\ ConstructionRaises(world))
        => (moduleState = "ready" /\ PREDICTOR_BACKEND.mode = "simulated")

(* C3: with KRONOS_MODE=simulated in any letter case the selector goes     *)
(* straight to READY(simulated): the Model-Backed Backend is never         *)
(* constructed, and requests are served by the simulator even when the     *)
(* model dependency is unavailable.                                        *)
C3_ForcedSimulatedNeverTriesModel ==
    (Selected /\ SimulatedEnv(env)) =>
        /\ moduleState = "ready"
        /\ PREDICTOR_BACKEND.mode = "simulated"
        /\ effects.ctor = 0
        /\ effects.loads = 0
        /\ ViaFacade => last.backend.mode = "simulated"

C3_Witness ==
    /\ env = EnvSet(<<"S","I","M","U","L","A","T","E","D">>)
    /\ ConstructionRaises(world)
    /\ ViaFacade
    /\ last.kind = "prediction"

(* C4: under a strict mode (neither auto nor simulated) a failed           *)
(* construction is fatal: the import fails with that exception, no backend *)
(* is substituted and no request is ever accepted.                         *)
C4_StrictFailureIsFatal ==
    (Selected /\ StrictEnv(env) /\ ConstructionRaises(world)) =>
        /\ moduleState = "failed"
        /\ importError # "none"
        /\ PREDICTOR_BACKEND = NoBackend
        /\ effects.instances = 0
        /\ ~Called
        /\ servedBy = {}

C4_Witness ==
    /\ StrictEnv(env)
    /\ world.import = "ImportError"
    /\ moduleState = "failed"
    /\ importError = "RuntimeError"

(* C5: an exception raised by the selected backend's predict reaches the   *)
(* caller of generate_prediction as that exception, with no Prediction,    *)
(* and the backend handle is never replaced once selected.                 *)
C5_BackendErrorsPropagate ==
    /\ []((ViaFacade /\ last.backendRaised \notin {"none", "n/a"}) =>
            /\ last.kind = "error"
            /\ last.exc = last.backendRaised
            /\ last.points = <<>>
            /\ last.backend = PREDICTOR_BACKEND)
    /\ [][moduleState = "ready" => PREDICTOR_BACKEND' = PREDICTOR_BACKEND]_vars

C5_Witness ==
    /\ ViaFacade
    /\ last.backend.mode = "model"
    /\ last.kind = "error"
    /\ last.backendRaised = "ValueError"
    /\ "prediction" \in outcomes

(* C6: when first requests arrive concurrently, the construction has run   *)
(* exactly once (one weight load if the model backend serves, never two)   *)
(* and all requests in flight hold the same backend handle.                *)
C6_ConcurrentCallersShareOneBackend ==
    (\E t \in Threads : pc[t] # "idle") =>
        /\ effects.determine = 1
        /\ effects.instances = 1
        /\ effects.loads <= 1
        /\ PREDICTOR_BACKEND.mode = "model" => effects.loads = 1
        /\ \A t \in Threads :
              pc[t] = "predicting" => req[t].backend = PREDICTOR_BACKEND
        /\ \A t, u \in Threads :
              (pc[t] = "predicting" /\ pc[u] = "predicting")
                  => req[t].backend = req[u].backend

C6_Witness ==
    /\ last = NoResult
    /\ outcomes = {}
    /\ PREDICTOR_BACKEND.mode = "model"
    /\ effects.loads = 1
    /\ \E t, u \in Threads :
          t # u /\ pc[t] = "predicting" /\ pc[u] = "predicting"

(* C7 as stated: nothing is constructed (no mode read, no model import, no *)
(* weight load) before the first generate_prediction call.                 *)
C7_LazyResolution ==
    ~Called => effects = NoEffects

(* C7 amended: the backend is resolved eagerly by the import of the        *)
(* module: once the module body has run the construction has run exactly   *)
(* once, also with no request made, and no later step constructs again.    *)
C7_EagerResolution ==
    /\ [](Selected <=> effects.determine = 1)
    /\ [](Selected <=> effects.modeReads = 1)
    /\ [](~Selected => ~Called)
    /\ [][Selected => effects' = effects]_vars

C7_Witness ==
    /\ moduleState = "ready"
    /\ ~Called
    /\ effects.determine = 1
    /\ effects.loads = 1

(* C8: generate_prediction with horizon_days <= 0 fails with the           *)
(* invalid-horizon ValueError for any security and any backend, and the    *)
(* backend's predict (and so any market-data call) is never invoked.       *)
C8_InvalidHorizonRejectedFirst ==
    (ViaFacade /\ last.h <= 0) =>
        /\ last.kind = "error"
        /\ last.exc = "ValueError"
        /\ last.msg = "horizon_days must be positive"
        /\ last.trace = <<>>
        /\ last.backendRaised = "n/a"

C8_Witness ==
    /\ ViaFacade
    /\ last.h = 0
    /\ last.isin = "UNKNOWN"
    /\ last.backend.mode = "model"
    /\ last.kind = "error"

(* C9: under the simulated backend, a positive horizon and a security that *)
(* is not in SECURITIES fail with ValueError 'Unknown ISIN', no Prediction.*)
C9_SimulatedRejectsUnknownIsin ==
    (/\ ViaFacade
     /\ last.backend.mode = "simulated"
     /\ last.h > 0
     /\ last.isin \notin DOMAIN SECURITIES) =>
        /\ last.kind = "error"
        /\ last.exc = "ValueError"
        /\ last.msg = "Unknown ISIN"
        /\ last.points = <<>>

C9_Witness ==
    /\ ViaFacade
    /\ last.backend.mode = "simulated"
    /\ last.h > 0
    /\ last.isin = "UNKNOWN"
    /\ last.kind = "error"

(* C10 as stated: every Prediction returned for a horizon h > 0, by any    *)
(* backend, has exactly h points with strictly increasing dates.           *)
C10_ExactlyHPoints ==
    (last.kind = "prediction" /\ last.h > 0) =>
        /\ Len(last.points) = last.h
        /\ StrictlyIncreasingDates(last.points)

(* C10 amended: every Prediction returned for a horizon h > 0 has strictly *)
(* increasing dates and at most h points: exactly h from the simulated and *)
(* the real-data trend backend, and min(h, floor(n / 78)) from the         *)
(* model-backed backend, n being the rows of the model's output series.    *)
C10_AtMostHPoints ==
    (last.kind = "prediction" /\ last.h > 0) =>
        /\ StrictlyIncreasingDates(last.points)
        /\ Len(last.points) <= last.h
        /\ last.backend.mode \in {"simulated", "trend-real-data"}
              => Len(last.points) = last.h
        /\ last.backend.mode = "model"
              => Len(last.points) = Min(last.h, last.rows \div 78)

C10_Witness ==
    /\ last.kind = "prediction"
    /\ last.backend.mode = "model"
    /\ last.h = 2
    /\ last.rows = 155
    /\ Len(last.points) = 1

----------------------------------------------------------------------------
\* a Prediction has been returned by a backend's predict or by a route
Returned == last.kind = "prediction" /\ last.via # "get_current_price"

WithinBounds(point) ==
    /\ FLeq(point.confidence_lower, point.predicted_price)
    /\ FLeq(point.predicted_price, point.confidence_upper)

(* C11: every PredictionPoint of every returned Prediction, from any       *)
(* backend and for any raw predicted price, has                            *)
(* confidence_lower <= predicted_price <= confidence_upper.                *)
C11_PriceWithinConfidenceBounds ==
    Returned => \A i \in 1..Len(last.points) : WithinBounds(last.points[i])

----------------------------------------------------------------------------
Consistent(signal, trend) ==
    /\ signal = "BUY" => trend = "bullish"
    /\ signal = "SELL" => trend = "bearish"
    /\ signal = "HOLD" => trend = "neutral"

(* C12: in every returned Prediction, whichever backend produced it        *)
(* (model-backed, simulated, real-data trend), BUY goes with bullish, SELL *)
(* with bearish and HOLD with neutral.                                     *)
C12_SignalTrendConsistent ==
    Returned => Consistent(last.signal, last.trend)

----------------------------------------------------------------------------
\* the latest call was predict on the model-backed adapter, and the backend
\* it wraps returned its dictionary
WrappedBackendReturned ==
    /\ last.via = "KronosPredictorBackend"
    /\ RealKronosPredict(last.isin, last.h, 364, last.given.bars,
                         last.given.rows, last.given.quote).raised = "none"

\* ... with no daily prediction in it
RawForecastEmpty ==
    /\ WrappedBackendReturned
    /\ RealKronosPredict(last.isin, last.h, 364, last.given.bars,
                         last.given.rows, last.given.quote).points = <<>>

(* C13: when the raw forecast list of the model backend is empty, the      *)
(* adapter does not raise: it returns a Prediction with no points, signal  *)
(* HOLD, trend neutral, confidence 0.5 and a summary that states           *)
(* insufficient data.                                                      *)
C13_EmptyForecastGivesHold ==
    RawForecastEmpty =>
        /\ last.kind = "prediction"
        /\ last.points = <<>>
        /\ last.signal = "HOLD"
        /\ last.trend = "neutral"
        /\ last.confidence = Frac(1, 2)
        /\ last.ai_summary = "Insufficient data for prediction"

C13_Witness ==
    /\ RawForecastEmpty
    /\ last.h = 2
    /\ last.given.rows = 77
    /\ last.kind = "prediction"
    /\ last.signal = "HOLD"

----------------------------------------------------------------------------
Routes == {"/predict", "/predict/{isin}"}

(* C14: at the inbound predict operation (/predict and /predict/{isin},    *)
(* served by generate_smart_prediction) a request whose horizon is missing *)
(* or not positive is rejected with a client error: never a server error,  *)
(* never a successful Prediction.                                          *)
C14_BadHorizonIsClientError ==
    (last.via \in Routes /\ (~last.given.horizon \/ last.h <= 0)) =>
        ResponseStatus(last) \in 400..499

----------------------------------------------------------------------------
\* the percentage move from current_price to the last point
FinalChangePct ==
    PriceChangePct(last.points[Len(last.points)].predicted_price,
                   last.current_price)

\* BUY iff the move is above 2, SELL iff below -2, HOLD otherwise
SignalByThresholds ==
    /\ last.signal = "BUY" <=> FLess(Whole(2), FinalChangePct)
    /\ last.signal = "SELL" <=> FLess(FinalChangePct, Whole(0 - 2))
    /\ last.signal = "HOLD" <=> /\ FLeq(Whole(0 - 2), FinalChangePct)
                                /\ FLeq(FinalChangePct, Whole(2))

\* BUY, SELL or HOLD as the catalog labels the security bullish, bearish or
\* anything else
SignalByCatalog ==
    /\ last.isin \in DOMAIN SECURITIES
    /\ last.signal =
          (IF SECURITIES[last.isin].trend = "bullish" THEN "BUY"
           ELSE IF SECURITIES[last.isin].trend = "bearish" THEN "SELL"
           ELSE "HOLD")

(* C15 as stated: in every returned Prediction with at least one point,    *)
(* from any backend, the signal follows price_change_pct: BUY iff it is    *)
(* above 2, SELL iff below -2, HOLD otherwise, exactly 2 and -2 included.  *)
C15_SignalByThresholdsEverywhere ==
    (Returned /\ Len(last.points) >= 1) => SignalByThresholds

(* C15 amended: in every returned Prediction with at least one point the   *)
(* model-backed adapter and the real-data trend predictor set the signal   *)
(* by price_change_pct (BUY iff above 2, SELL iff below -2, HOLD otherwise,*)
(* exactly 2 and -2 included); the simulated backend and                   *)
(* generate_smart_prediction set it by the catalog's trend label of the    *)
(* security, whatever the predicted move.                                  *)
C15_SignalByThresholdsOrCatalog ==
    (Returned /\ Len(last.points) >= 1) =>
        IF last.via \in {"KronosPredictorBackend", "RealDataFallbackPredictor"}
        THEN SignalByThresholds
        ELSE SignalByCatalog

C15_Witness ==
    /\ Returned
    /\ last.via = "KronosPredictorBackend"
    /\ Len(last.points) = 1
    /\ last.current_price = Whole(100)
    /\ last.points[1].predicted_price = Whole(102)
    /\ last.signal = "HOLD"

----------------------------------------------------------------------------
(* C16: when the model returns n rows with n < horizon_days * 78, predict  *)
(* of the model-backed backend does not fail on that account; it returns   *)
(* exactly the days d of 1..horizon_days with d * 78 - 1 < n, the prefix   *)
(* of min(horizon_days, floor(n / 78)) days, each taken from row           *)
(* d * 78 - 1.                                                             *)
C16_ShortOutputGivesPrefix ==
    (/\ last.via = "KronosPredictorBackend"
     /\ GetHistoricalData(last.isin, 400, last.given.bars).raised = "none"
     /\ GetCurrentPrice(last.isin, last.given.quote).raised = "none"
     /\ last.given.rows >= 0
     /\ last.given.rows < last.h * 78) =>
        /\ last.kind = "prediction"
        /\ Len(last.raw) = Min(last.h, last.given.rows \div 78)
        /\ {last.raw[i].day : i \in 1..Len(last.raw)} =
              {d \in 1..last.h : d * 78 - 1 < last.given.rows}
        /\ \A i \in 1..Len(last.raw) :
              /\ last.raw[i].day = i
              /\ last.raw[i].row = i * 78 - 1
              /\ last.points[i].date = last.raw[i].date

C16_Witness ==
    /\ last.via = "KronosPredictorBackend"
    /\ last.kind = "prediction"
    /\ last.h = 2
    /\ last.given.rows = 155
    /\ Len(last.raw) = 1
    /\ last.raw[1].row = 77

----------------------------------------------------------------------------
\* how often a step occurs in a call trace
Count(trace, step) == Cardinality({i \in DOMAIN trace : trace[i] = step})

(* C17: get_current_price has exactly one fallback step. For a mapped      *)
(* security a failed live quote is followed by one attempt to read the     *)
(* last close from the historical data; an error surfaces only if that     *)
(* fetch fails too. For an unmapped security it fails at once, without a   *)
(* provider call.                                                          *)
C17_OneFallbackStep ==
    last.via = "get_current_price" =>
        IF last.isin \notin DOMAIN ISIN_TO_TICKER
        THEN /\ last.exc = "ValueError"
             /\ Count(last.trace, "fast_info") = 0
             /\ Count(last.trace, "get_historical_data") = 0
        ELSE /\ Count(last.trace, "fast_info") = 1
             /\ last.given.quote = "live" =>
                   /\ last.exc = ""
                   /\ last.source = "last_price"
                   /\ Count(last.trace, "get_historical_data") = 0
             /\ last.given.quote = "close" =>
                   /\ last.exc = ""
                   /\ last.source = "last_close"
                   /\ last.current_price = Whole(99)
                   /\ Count(last.trace, "get_historical_data") = 1
             /\ last.given.quote = "fail" =>
                   /\ last.exc = "ValueError"
                   /\ Count(last.trace, "get_historical_data") = 1
             /\ last.exc # "" => last.given.quote = "fail"

C17_Witness ==
    /\ last.via = "get_current_price"
    /\ last.isin \in DOMAIN ISIN_TO_TICKER
    /\ last.given.quote = "close"
    /\ last.source = "last_close"
    /\ last.exc = ""

----------------------------------------------------------------------------
====
